---- MODULE Spec2Model ----
(***************************************************************************)
(* Model of hf::Receiver (receiver.hpp): the channel sampler, the stick    *)
(* combination debouncer and the expo/rate command shaper.                 *)
(*                                                                         *)
(* Numbers.  The floats of the source are modelled exactly as rationals.   *)
(* rawvals, the readings and the configuration are fixed-point integers in *)
(* units of 1/One (One stands for 1.0f).  Readings are multiples of 4      *)
(* units so that the mean of four of them is again a whole number of       *)
(* units.  commands are reduced fractions <<numerator, denominator>>.      *)
(***************************************************************************)
EXTENDS Integers, Sequences, FiniteSets, TLC

VARIABLES
    config,        \* ReceiverConfig config
    rawvals,       \* float rawvals[CONFIG_RC_CHANS], units of 1/One
    commands,      \* float commands[4], reduced fractions
    sticks,        \* uint8_t sticks
    commandDelay,  \* uint8_t commandDelay
    averageIndex,  \* int32_t averageIndex
    lastOp,        \* the member function that returned last
    ret,           \* its return value (0 for a void function)
    held,          \* observer: consecutive update() calls with the present code
    fired,         \* observer: update() calls of the present run after which changed()
    hist,          \* observer: readings of the latest consecutive filtered update() calls
    mode,          \* observer: what useSerial() returned in the latest update()
    updates,       \* observer: update() calls since the latest init()
    calls          \* observer: member function calls since construction

prog == <<config, rawvals, commands, sticks, commandDelay, averageIndex, lastOp, ret>>
obs  == <<held, fired, hist, mode, updates, calls>>
vars == <<config, rawvals, commands, sticks, commandDelay, averageIndex, lastOp, ret,
          held, fired, hist, mode, updates, calls>>

----------------------------------------------------------------------------
(* Fixed point and channel numbering *)

One == 40

CONFIG_RC_CHANS == 5
DEMAND_ROLL     == 0
DEMAND_PITCH    == 1
DEMAND_YAW      == 2
DEMAND_THROTTLE == 3
DEMAND_AUX      == 4

Chans   == 0 .. (CONFIG_RC_CHANS - 1)
Demands == 0 .. 3

----------------------------------------------------------------------------
(* Bounds *)

MaxHeld  == 280   \* the observer held stops counting here
MaxIndex == 2     \* filtered update() calls explored by SpecDebounce
MaxCalls == 3     \* member function calls explored by Spec
MaxFilterCalls == 5  \* update() calls explored by SpecFilter
MaxUpdates == 22  \* the observer updates stops counting here
MaxWrapCalls == 5  \* calls explored by SpecWrap
WrapLead == 2      \* filtered update() calls SpecWrap starts before INT32_MAX

----------------------------------------------------------------------------
(* Rational arithmetic standing for the float arithmetic of the source *)

RECURSIVE GCD(_, _)
GCD(a, b) == IF b = 0 THEN a ELSE GCD(b, a % b)

IAbs(n) == IF n < 0 THEN -n ELSE n

Norm(n, d) ==
    LET s == IF d < 0 THEN -1 ELSE 1
        g == GCD(IAbs(n), IAbs(d))
    IN  <<(s * n) \div g, (s * d) \div g>>

Fix(v)     == Norm(v, One)
RInt(k)    == <<k, 1>>
RAdd(x, y) == Norm(x[1] * y[2] + y[1] * x[2], x[2] * y[2])
RNeg(x)    == <<-x[1], x[2]>>
RSub(x, y) == RAdd(x, RNeg(y))
RMul(x, y) == Norm(x[1] * y[1], x[2] * y[2])
RDiv(x, y) == Norm(x[1] * y[2], x[2] * y[1])
RAbs(x)    == <<IAbs(x[1]), x[2]>>
RPos(x)    == x[1] > 0
RNegative(x) == x[1] < 0

----------------------------------------------------------------------------
(* Receiver::update, lines 89-127 *)

\* averageIndex % 4 as C++ computes it (truncated division)
Slot(idx) == IF idx >= 0 THEN idx % 4 ELSE -((-(idx + 4)) % 4)

\* averageRaw is a local array without initializer: every slot that this
\* call does not write holds an indeterminate value, junk[chan][i].  With a
\* negative slot the write falls outside the row, and the four slots summed
\* for the channel are all indeterminate.
AverageRaw(chan, in, junk, idx) ==
    [i \in 0 .. 3 |-> IF i = Slot(idx) THEN in[chan] ELSE junk[chan][i]]

Mean4(row) == (row[0] + row[1] + row[2] + row[3]) \div 4

ReadRaw(serial, in, junk, idx) ==
    [chan \in Chans |->
        IF serial THEN in[chan] ELSE Mean4(AverageRaw(chan, in, junk, idx))]

\* the two tests made for one channel, as the bits they set
MinBitSwapped(raw, margin) == IF raw < -One + margin THEN 128 ELSE 0
MinBit(raw, margin) == IF raw > -One + margin THEN 128 ELSE 0
MaxBit(raw, margin) == IF raw < One - margin THEN 64 ELSE 0

\* stTmp >>= 2
ShiftLeftTmp(stTmp) == (stTmp * 4) % 256
ShiftTmp(stTmp) == stTmp \div 4

RECURSIVE StickLoop(_, _, _, _)
StickLoop(i, stTmp, raw, margin) ==
    IF i >= 4 THEN stTmp
    ELSE StickLoop(i + 1,
                   ShiftTmp(stTmp) + MinBit(raw[i], margin) + MaxBit(raw[i], margin),
                   raw, margin)

StickCodeFirstChannelHigh(raw, margin) ==
    StickLoop(0, 0, [i \in Demands |-> raw[3 - i]], margin)
StickCode(raw, margin) == StickLoop(0, 0, raw, margin)

\* if (commandDelay < 250) commandDelay++;   on a uint8_t
IncDelayNoLimit(d) == (d + 1) % 256
IncDelay(d) == IF d < 250 THEN (d + 1) % 256 ELSE d

NextDelayNoReset(stTmp, old, d) == IncDelay(d)
NextDelay(stTmp, old, d) == IF stTmp = old THEN IncDelay(d) ELSE 0

\* averageIndex++ on an int32_t.  At INT32_MAX the increment overflows: the
\* two's complement add of the targets wraps to INT32_MIN (a build that traps
\* on overflow stops instead, which every behaviour may do by stuttering).
INT32_MAX == 2147483647
INT32_MIN == -INT32_MAX - 1

IncIndexStuck(idx) == idx
IncIndex(idx) == IF idx < INT32_MAX THEN idx + 1 ELSE INT32_MIN

update(serial, in, junk) ==
    /\ rawvals' = ReadRaw(serial, in, junk, averageIndex)
    /\ averageIndex' = IF serial THEN averageIndex ELSE IncIndex(averageIndex)
    /\ sticks' = StickCode(rawvals', config.margin)
    /\ commandDelay' = NextDelay(sticks', sticks, commandDelay)
    /\ lastOp' = "update"
    /\ ret' = 0
    /\ UNCHANGED <<config, commands>>

----------------------------------------------------------------------------
(* Receiver::init, lines 77-87 *)

initNoReset(rcConfig) ==
    /\ config' = rcConfig
    /\ sticks' = 0
    /\ averageIndex' = 0
    /\ lastOp' = "init"
    /\ ret' = 0
    /\ UNCHANGED <<rawvals, commands, commandDelay>>

init(rcConfig) ==
    /\ config' = rcConfig
    /\ commandDelay' = 0
    /\ sticks' = 0
    /\ averageIndex' = 0
    /\ lastOp' = "init"
    /\ ret' = 0
    /\ UNCHANGED <<rawvals, commands>>

----------------------------------------------------------------------------
(* Receiver::changed, lines 129-132 *)

changedValueLevel == IF commandDelay >= 20 THEN 1 ELSE 0
changedValue == IF commandDelay = 20 THEN 1 ELSE 0

changedConsuming ==
    /\ lastOp' = "changed"
    /\ ret' = changedValue
    /\ commandDelay' = 0
    /\ UNCHANGED <<config, rawvals, commands, sticks, averageIndex>>

changed ==
    /\ lastOp' = "changed"
    /\ ret' = changedValue
    /\ UNCHANGED <<config, rawvals, commands, sticks, commandDelay, averageIndex>>

----------------------------------------------------------------------------
(* Receiver::computeExpo and its helpers, lines 134-188 *)

rcFunExpoOfSquare(x, e, r) ==
    RMul(RMul(RAdd(RInt(1), RMul(e, RMul(x, x))), x), r)

\* (1 + e*(x*x - 1)) * x * r
rcFun(x, e, r) ==
    RMul(RMul(RAdd(RInt(1), RMul(e, RSub(RMul(x, x), RInt(1)))), x), r)

\* tmp = x - mid; y = tmp>0 ? 1-mid : (tmp<0 ? mid : 1);
\* mid + tmp*(1-e + e * (tmp*tmp) / (y*y))
throttleFunNoMid(x, e, mid) ==
    LET tmp == RSub(x, mid)
    IN  RMul(tmp, RSub(RInt(1), e))

throttleDivisor(tmp, mid) ==
    IF RPos(tmp) THEN RSub(RInt(1), mid)
    ELSE IF RNegative(tmp) THEN mid ELSE RInt(1)

throttleFun(x, e, mid) ==
    LET tmp == RSub(x, mid)
        y   == throttleDivisor(tmp, mid)
    IN  RAdd(mid,
             RMul(tmp, RAdd(RSub(RInt(1), e),
                            RDiv(RMul(e, RMul(tmp, tmp)), RMul(y, y)))))

\* std::abs, taken as its float overload
makePositiveCommandKeep(cmds, raw, channel) ==
    [cmds EXCEPT ![channel] = RAbs(RAdd(cmds[channel], Fix(raw[channel])))]

makePositiveCommand(cmds, raw, channel) ==
    [cmds EXCEPT ![channel] = RAbs(Fix(raw[channel]))]

applyPitchRollFunctionSwapped(cmds, cfg, channel) ==
    [cmds EXCEPT ![channel] =
        rcFun(cmds[channel], Fix(cfg.pitchRollRate), Fix(cfg.pitchRollExpo))]

applyPitchRollFunction(cmds, cfg, channel) ==
    [cmds EXCEPT ![channel] =
        rcFun(cmds[channel], Fix(cfg.pitchRollExpo), Fix(cfg.pitchRollRate))]

adjustCommandNoSign(cmds, raw, channel) ==
    [cmds EXCEPT ![channel] = RDiv(cmds[channel], RInt(2))]

adjustCommand(cmds, raw, channel) ==
    LET half == RDiv(cmds[channel], RInt(2))
    IN  [cmds EXCEPT ![channel] = IF raw[channel] < 0 THEN RNeg(half) ELSE half]

ExpoCommandsYawShaped(cmds, raw, cfg) ==
    LET c1 == makePositiveCommand(cmds, raw, DEMAND_ROLL)
        c2 == makePositiveCommand(c1, raw, DEMAND_PITCH)
        c3 == makePositiveCommand(c2, raw, DEMAND_YAW)
        c4 == applyPitchRollFunction(c3, cfg, DEMAND_ROLL)
        c5 == applyPitchRollFunction(c4, cfg, DEMAND_PITCH)
        cy == applyPitchRollFunction(c5, cfg, DEMAND_YAW)
        c6 == adjustCommand(cy, raw, DEMAND_ROLL)
        c7 == adjustCommand(c6, raw, DEMAND_PITCH)
        c8 == adjustCommand(c7, raw, DEMAND_YAW)
        c9 == [c8 EXCEPT ![DEMAND_YAW] = RNeg(c8[DEMAND_YAW])]
        tmp == RDiv(RAdd(Fix(raw[DEMAND_THROTTLE]), RInt(1)), RInt(2))
    IN  [c9 EXCEPT ![DEMAND_THROTTLE] =
            throttleFun(tmp, Fix(cfg.throttleExpo), Fix(cfg.throttleMid))]

\* the commands computeExpo leaves, from the commands it finds
ExpoCommands(cmds, raw, cfg) ==
    LET c1 == makePositiveCommand(cmds, raw, DEMAND_ROLL)
        c2 == makePositiveCommand(c1, raw, DEMAND_PITCH)
        c3 == makePositiveCommand(c2, raw, DEMAND_YAW)
        c4 == applyPitchRollFunction(c3, cfg, DEMAND_ROLL)
        c5 == applyPitchRollFunction(c4, cfg, DEMAND_PITCH)
        c6 == adjustCommand(c5, raw, DEMAND_ROLL)
        c7 == adjustCommand(c6, raw, DEMAND_PITCH)
        c8 == adjustCommand(c7, raw, DEMAND_YAW)
        c9 == [c8 EXCEPT ![DEMAND_YAW] = RNeg(c8[DEMAND_YAW])]
        tmp == RDiv(RAdd(Fix(raw[DEMAND_THROTTLE]), RInt(1)), RInt(2))
    IN  [c9 EXCEPT ![DEMAND_THROTTLE] =
            throttleFun(tmp, Fix(cfg.throttleExpo), Fix(cfg.throttleMid))]

computeExpo ==
    /\ commands' = ExpoCommands(commands, rawvals, config)
    /\ lastOp' = "computeExpo"
    /\ ret' = 0
    /\ UNCHANGED <<config, rawvals, sticks, commandDelay, averageIndex>>

----------------------------------------------------------------------------
(* Receiver::getAuxState and Receiver::throttleIsDown, lines 190-200 *)

\* aux < 0 ? 0 : (aux < 0.4 ? 1 : 2)
getAuxStateInclusive == 
    IF rawvals[DEMAND_AUX] <= 0 THEN 0
    ELSE IF 10 * rawvals[DEMAND_AUX] <= 4 * One THEN 1 ELSE 2

getAuxStateValue ==
    IF rawvals[DEMAND_AUX] < 0 THEN 0
    ELSE IF 10 * rawvals[DEMAND_AUX] < 4 * One THEN 1 ELSE 2

getAuxState ==
    /\ lastOp' = "getAuxState"
    /\ ret' = getAuxStateValue
    /\ UNCHANGED <<config, rawvals, commands, sticks, commandDelay, averageIndex>>

throttleIsDownInclusive ==
    IF rawvals[DEMAND_THROTTLE] <= -One + config.margin THEN 1 ELSE 0

throttleIsDownValue ==
    IF rawvals[DEMAND_THROTTLE] < -One + config.margin THEN 1 ELSE 0

throttleIsDown ==
    /\ lastOp' = "throttleIsDown"
    /\ ret' = throttleIsDownValue
    /\ UNCHANGED <<config, rawvals, commands, sticks, commandDelay, averageIndex>>

----------------------------------------------------------------------------
(* Construction and the inputs explored *)

Config(m, pre, prr, te, tm) ==
    [margin |-> m, pitchRollExpo |-> pre, pitchRollRate |-> prr,
     throttleExpo |-> te, throttleMid |-> tm]

\* {margin=0.1, pitchRollExpo=0.5, pitchRollRate=1.0, throttleExpo=0.3, throttleMid=0.5}
\* {margin=0.2, pitchRollExpo=0.3, pitchRollRate=0.5, throttleExpo=0.1, throttleMid=0.3}
\* {margin=0.1, pitchRollExpo=0.7, pitchRollRate=1.5, throttleExpo=0.5, throttleMid=0.6}
Configs ==
    {Config(4, 20, 40, 12, 20), Config(8, 12, 20, 4, 12), Config(4, 28, 60, 20, 24)}

Frame(roll, pitch, yaw, throttle, aux) ==
    [chan \in Chans |->
        CASE chan = DEMAND_ROLL     -> roll
          [] chan = DEMAND_PITCH    -> pitch
          [] chan = DEMAND_YAW      -> yaw
          [] chan = DEMAND_THROTTLE -> throttle
          [] OTHER                  -> aux]

\* rawvals and commands are not written by init(): indeterminate until the
\* first update() and computeExpo()
InitRaw      == {Frame(0, 0, 0, 0, 0), Frame(One, One, One, One, One)}
InitCommands == {[c \in Demands |-> <<0, 1>>], [c \in Demands |-> <<1, 1>>]}

UniformJunk(v) == [chan \in Chans |-> [i \in 0 .. 3 |-> v]]

Init ==
    /\ config \in Configs
    /\ rawvals \in InitRaw
    /\ commands \in InitCommands
    /\ commandDelay = 0
    /\ sticks = 0
    /\ averageIndex = 0
    /\ lastOp = "init"
    /\ ret = 0
    /\ held = 0
    /\ fired = 0
    /\ hist = <<>>
    /\ mode = "none"
    /\ updates = 0
    /\ calls = 0

----------------------------------------------------------------------------
(* The calls a client can make, with what the observers record *)

Min(a, b) == IF a < b THEN a ELSE b

\* held numbers the update() calls of a run of one stick combination from 1;
\* fired counts those of them after which changed() is true
ObserveRun ==
    /\ held' = IF sticks' = sticks THEN Min(held + 1, MaxHeld) ELSE 1
    /\ fired' = IF sticks' = sticks THEN Min(fired + changedValue', 2)
                ELSE changedValue'

\* the readings of the latest filtered calls, newest last, at most four
Record(h, in) == IF Len(h) < 4 THEN Append(h, in) ELSE Append(Tail(h), in)

CallInit ==
    \E c \in Configs :
        /\ init(c)
        /\ held' = 0
        /\ fired' = 0
        /\ hist' = <<>>
        /\ mode' = "none"
        /\ updates' = 0

CallUpdateSerial(frames, record) ==
    \E in \in frames :
        /\ update(TRUE, in, UniformJunk(0))
        /\ ObserveRun
        /\ hist' = IF record THEN <<>> ELSE hist
        /\ mode' = "serial"
        /\ updates' = Min(updates + 1, MaxUpdates)

CallUpdateFiltered(frames, junks, record) ==
    \E in \in frames, junk \in junks :
        /\ update(FALSE, in, junk)
        /\ ObserveRun
        /\ hist' = IF record THEN Record(hist, in) ELSE hist
        /\ mode' = "filtered"
        /\ updates' = Min(updates + 1, MaxUpdates)

CallChanged ==
    /\ changed
    /\ UNCHANGED <<held, fired, hist, mode, updates>>

CallComputeExpo ==
    /\ computeExpo
    /\ UNCHANGED <<held, fired, hist, mode, updates>>

CallGetAuxState ==
    /\ getAuxState
    /\ UNCHANGED <<held, fired, hist, mode, updates>>

CallThrottleIsDown ==
    /\ throttleIsDown
    /\ UNCHANGED <<held, fired, hist, mode, updates>>

----------------------------------------------------------------------------
(* Spec: every member function, up to MaxCalls calls, over many frames *)

StickVals == {-One, -One + 4, -One + 8, 12, One - 8, One - 4, One}
AuxVals   == {-4, 12, 16, 20, One}

\* all centred, the four sticks in one corner, and one mixed frame
MixedFrames ==
    {Frame(0, 0, 0, 0, 0), Frame(24, -24, 12, 0, 20),
     Frame(-One, -One, -One, -One, 0), Frame(One, One, One, One, 0)}

\* those, and every frame with one channel off centre
Frames ==
    MixedFrames
    \cup {Frame(v, 0, 0, 0, 0) : v \in StickVals}
    \cup {Frame(0, v, 0, 0, 0) : v \in StickVals}
    \cup {Frame(0, 0, v, 0, 0) : v \in StickVals}
    \cup {Frame(0, 0, 0, v, 0) : v \in StickVals}
    \cup {Frame(0, 0, 0, 0, v) : v \in AuxVals}
    \cup {Frame(0, 0, 0, 2 * c.throttleMid - One, 0) : c \in Configs}

Junk == {UniformJunk(v) : v \in {-One, 4, One}}

Counted == calls < MaxCalls /\ calls' = calls + 1

Next ==
    \/ CallInit /\ Counted
    \/ CallUpdateSerial(Frames, FALSE) /\ Counted
    \/ CallUpdateFiltered(MixedFrames, Junk, FALSE) /\ Counted
    \/ CallChanged /\ Counted
    \/ CallComputeExpo /\ Counted
    \/ CallGetAuxState /\ Counted
    \/ CallThrottleIsDown /\ Counted

Spec == Init /\ [][Next]_vars

----------------------------------------------------------------------------
(* SpecDebounce: long runs of update(), init() and changed() over few frames *)

DebounceFrames ==
    {Frame(r, 0, 0, t, 0) : r \in {-One, 0, One}, t \in {-One, 0}}

DebounceJunk == {UniformJunk(v) : v \in {-One, One}}

NextDebounce ==
    \/ CallInit /\ UNCHANGED calls
    \/ CallUpdateSerial(DebounceFrames, FALSE) /\ UNCHANGED calls
    \/ /\ averageIndex < MaxIndex
       /\ CallUpdateFiltered(DebounceFrames, DebounceJunk, FALSE)
       /\ UNCHANGED calls
    \/ CallChanged /\ UNCHANGED calls

SpecDebounce == Init /\ [][NextDebounce]_vars

----------------------------------------------------------------------------
(* Claims about the debouncer, checked under SpecDebounce *)

\* C1 as stated: numbering the update() calls of a run of one stick
\* combination from 1 at the first call on which it is present, changed()
\* returns true after cycle 20 and false after every other cycle up to 250.
C1_FiresAtCycle20 ==
    (lastOp = "changed" /\ held \in 1 .. 250) =>
        ret = (IF held = 20 THEN 1 ELSE 0)

\* C1 amended: the first call of the run sets the counter to 0, so changed()
\* returns false after cycles 1..20, true after cycle 21 and false after
\* cycles 22..250.
C1_FiresAtCycle21 ==
    (lastOp = "changed" /\ held \in 1 .. 250) =>
        ret = (IF held = 21 THEN 1 ELSE 0)

C1_Witness == lastOp = "changed" /\ held = 21 /\ ret = 1

\* C2: the debounce counter is always in 0..250, and an update() with an
\* unchanged combination at 250 leaves it at 250: once a combination has been
\* held for 252 calls or more the counter is 250.
C2_DelaySaturates ==
    /\ commandDelay \in 0 .. 250
    /\ (lastOp = "update" /\ held >= 252) => commandDelay = 250

C2_Witness == lastOp = "update" /\ held = 253 /\ commandDelay = 250

\* C3: within a run of update() calls that all compute the same stick
\* combination, of any length, changed() is true after at most one call.
C3_OneShot == fired <= 1

C3_Witness == lastOp = "update" /\ held > 251 /\ fired = 1

\* C4: an update() that computes a combination different from the stored one
\* (the first call of a run) resets the counter to 0 and stores the new code;
\* so changed() is true only for a combination held for 20 calls or more.
C4_ChangeResets ==
    /\ (lastOp = "update" /\ held = 1) =>
            /\ commandDelay = 0
            /\ sticks = StickCode(rawvals, config.margin)
    /\ changedValue = 1 => held >= 20

C4_Witness == lastOp = "update" /\ held = 1 /\ commandDelay = 0 /\ averageIndex > 0

----------------------------------------------------------------------------
(* SpecFilter: init() and update() in both modes, up to MaxFilterCalls     *)
(* calls, recording the readings of the filtered calls in hist             *)

FilterFrames == {Frame(v, v, v, v, v) : v \in {-One, 0, 16}}

FilterJunk == {UniformJunk(v) : v \in {-One, 0, 16}}

CountedFilter == calls < MaxFilterCalls /\ calls' = calls + 1

NextFilter ==
    \/ CallInit /\ CountedFilter
    \/ CallUpdateSerial(FilterFrames, TRUE) /\ CountedFilter
    \/ CallUpdateFiltered(FilterFrames, FilterJunk, TRUE) /\ CountedFilter

SpecFilter == Init /\ [][NextFilter]_vars

----------------------------------------------------------------------------
(* Claims about the stick combination code, checked under Spec *)

\* the bit pair of the code at bits 2k+1 and 2k
PairAt(code, k) == (code \div (4 ^ k)) % 4
HighBit(pair) == pair \div 2
LowBit(pair)  == pair % 2

\* C5 as stated: after update(), for each of the 4 channels the bit set by
\* the test commented "check for MIN" is set iff raw < -1 + margin and the
\* bit set by the test commented "check for MAX" is set iff raw > 1 - margin;
\* a centred stick has both bits clear and no channel has both bits set.
C5_BitsMarkExtremes ==
    lastOp = "update" =>
        \A ch \in Demands :
            LET pair == PairAt(sticks, ch) IN
            /\ HighBit(pair) = 1 <=> rawvals[ch] < -One + config.margin
            /\ LowBit(pair) = 1 <=> rawvals[ch] > One - config.margin
            /\ rawvals[ch] = 0 => pair = 0
            /\ pair # 3

\* C5 amended: the bits mark the stick being away from an extreme.  The
\* "check for MIN" bit is set iff raw > -1 + margin and the "check for MAX"
\* bit is set iff raw < 1 - margin; a centred stick has both bits set and,
\* for margin in (0,1), no channel ever has both bits clear.
C5_BitsMarkAwayFromExtremes ==
    lastOp = "update" =>
        \A ch \in Demands :
            LET pair == PairAt(sticks, ch) IN
            /\ HighBit(pair) = 1 <=> rawvals[ch] > -One + config.margin
            /\ LowBit(pair) = 1 <=> rawvals[ch] < One - config.margin
            /\ rawvals[ch] = 0 => pair = 3
            /\ pair # 0

C5_Witness ==
    /\ lastOp = "update"
    /\ rawvals[DEMAND_ROLL] = -One + config.margin
    /\ rawvals[DEMAND_PITCH] = 0
    /\ PairAt(sticks, DEMAND_ROLL) = 1

\* the two bits update() computes for one channel, as a pair
ChannelPair(raw, margin) ==
    (IF raw > -One + margin THEN 2 ELSE 0) + (IF raw < One - margin THEN 1 ELSE 0)

\* C6 as stated: the code packs the pairs in channel order with bits 7..6
\* belonging to the first channel (roll) and bits 1..0 to the fourth
\* (throttle).
C6_FirstChannelHighest ==
    lastOp = "update" =>
        \A ch \in Demands :
            PairAt(sticks, 3 - ch) = ChannelPair(rawvals[ch], config.margin)

\* C6 amended: the least-significant pair (bits 1..0) belongs to the first
\* channel (roll) and the most-significant pair (bits 7..6) to the fourth
\* (throttle).
C6_FirstChannelLowest ==
    lastOp = "update" =>
        \A ch \in Demands :
            PairAt(sticks, ch) = ChannelPair(rawvals[ch], config.margin)

C6_Witness ==
    /\ lastOp = "update"
    /\ rawvals[DEMAND_THROTTLE] = -One
    /\ rawvals[DEMAND_ROLL] = 0
    /\ sticks = 127

----------------------------------------------------------------------------
(* Claims about the sampler, checked under SpecFilter *)

\* C7 as stated: after 4 or more consecutive filtered update() calls each
\* channel's smoothed value is the arithmetic mean of that channel's 4 most
\* recent readings.
C7_MeanOfLastFour ==
    (lastOp = "update" /\ Len(hist) = 4) =>
        \A chan \in Chans :
            4 * rawvals[chan] =
                hist[1][chan] + hist[2][chan] + hist[3][chan] + hist[4][chan]

\* C8: every update() in filtered mode advances averageIndex by exactly 1
\* and every update() in direct mode leaves it unchanged.
C8_IndexCountsFiltered ==
    [][lastOp' = "update" =>
          averageIndex' = averageIndex + (IF mode' = "filtered" THEN 1 ELSE 0)]_vars

C8_Witness ==
    lastOp = "update" /\ mode = "serial" /\ averageIndex = 2 /\ calls = 4

----------------------------------------------------------------------------
(* Claims about the shaper and the auxiliary switch, checked under Spec *)

\* C9: getAuxState() returns 0 (LOW) if the auxiliary channel a < 0,
\* 1 (MID) if 0 <= a < 0.4 and 2 (HIGH) otherwise; 0.0 gives MID and 0.4
\* gives HIGH.
C9_AuxThresholds ==
    lastOp = "getAuxState" =>
        LET a == rawvals[DEMAND_AUX] IN
        /\ a < 0 => ret = 0
        /\ (0 <= a /\ 10 * a < 4 * One) => ret = 1
        /\ 10 * a >= 4 * One => ret = 2

C9_Witness ==
    lastOp = "getAuxState" /\ 10 * rawvals[DEMAND_AUX] = 4 * One /\ ret = 2

NegFrame(raw) == [chan \in Chans |-> -raw[chan]]

\* C10: the roll, pitch and yaw commands computeExpo() leaves for the raw
\* values r are the exact negations of those it leaves for -r.
C10_SignSymmetry ==
    lastOp = "computeExpo" =>
        \A ch \in {DEMAND_ROLL, DEMAND_PITCH, DEMAND_YAW} :
            commands[ch] = RNeg(ExpoCommands(commands, NegFrame(rawvals), config)[ch])

C10_Witness ==
    /\ lastOp = "computeExpo"
    /\ rawvals[DEMAND_ROLL] > 0
    /\ rawvals[DEMAND_PITCH] < 0
    /\ rawvals[DEMAND_YAW] > 0
    /\ commands[DEMAND_ROLL][1] > 0
    /\ commands[DEMAND_PITCH][1] < 0
    /\ commands[DEMAND_YAW][1] < 0

----------------------------------------------------------------------------
(* Claims about the throttle and expo curves, checked under Spec *)

ExpoVals == {0, 4, 12, 20, One}

\* C11: when raw throttle is 2*throttleMid - 1, computeExpo() leaves a
\* throttle command equal to throttleMid, for every throttleExpo, and the
\* divisor y of throttleFun is 1.
C11_ThrottleMidPin ==
    (lastOp = "computeExpo"
        /\ rawvals[DEMAND_THROTTLE] = 2 * config.throttleMid - One) =>
        LET mid == Fix(config.throttleMid)
            x   == RDiv(RAdd(Fix(rawvals[DEMAND_THROTTLE]), RInt(1)), RInt(2))
        IN  /\ commands[DEMAND_THROTTLE] = mid
            /\ throttleDivisor(RSub(x, mid), mid) = RInt(1)
            /\ \A e \in ExpoVals : throttleFun(x, Fix(e), mid) = mid

C11_Witness ==
    /\ lastOp = "computeExpo"
    /\ config.throttleMid = 12
    /\ rawvals[DEMAND_THROTTLE] = -16
    /\ commands[DEMAND_THROTTLE] = <<3, 10>>

\* C12: for roll and pitch, raw = +1 gives the command pitchRollRate / 2
\* (shaped magnitude pitchRollRate before the halving) for every
\* pitchRollExpo, and raw = 0 gives the command 0.
C12_ExpoAtExtremes ==
    lastOp = "computeExpo" =>
        /\ \A ch \in {DEMAND_ROLL, DEMAND_PITCH} :
              /\ rawvals[ch] = One =>
                    commands[ch] = RDiv(Fix(config.pitchRollRate), RInt(2))
              /\ rawvals[ch] = 0 => commands[ch] = RInt(0)
        /\ \A e \in ExpoVals :
              /\ rcFun(RInt(1), Fix(e), Fix(config.pitchRollRate))
                    = Fix(config.pitchRollRate)
              /\ rcFun(RInt(0), Fix(e), Fix(config.pitchRollRate)) = RInt(0)

C12_Witness ==
    /\ lastOp = "computeExpo"
    /\ rawvals[DEMAND_ROLL] = One
    /\ rawvals[DEMAND_PITCH] = 0
    /\ config.pitchRollRate = 20
    /\ commands[DEMAND_ROLL] = <<1, 4>>
    /\ commands[DEMAND_PITCH] = <<0, 1>>

----------------------------------------------------------------------------
(* The end-to-end scenario, checked under Spec *)

\* x is t/10000 to four decimal places
Near(x, t) == IAbs(20000 * x[1] - 2 * t * x[2]) <= x[2]

\* config {margin=0.1, pitchRollExpo=0.5, pitchRollRate=1.0, throttleExpo=0.3,
\* throttleMid=0.5}, direct mode, raw [0.6, -0.6, 0.3, 0.0, 0.5], after
\* update() and computeExpo()
Scenario ==
    /\ lastOp = "computeExpo"
    /\ mode = "serial"
    /\ config = Config(4, 20, 40, 12, 20)
    /\ rawvals = Frame(24, -24, 12, 0, 20)

\* C13 as stated: the scenario gives roll about 0.2460, pitch about -0.2460,
\* yaw -0.15, throttle 0.5 and getAuxState() HIGH.
C13_ScenarioRoll2460 ==
    Scenario =>
        /\ Near(commands[DEMAND_ROLL], 2460)
        /\ Near(commands[DEMAND_PITCH], -2460)
        /\ commands[DEMAND_YAW] = <<-3, 20>>
        /\ commands[DEMAND_THROTTLE] = <<1, 2>>
        /\ getAuxStateValue = 2

\* C13 amended: the scenario gives roll (1 + 0.5*(0.36 - 1))*0.6*1.0/2 =
\* 0.2040 and pitch -0.2040; yaw -0.15, throttle 0.5 and HIGH as stated.
C13_ScenarioRoll2040 ==
    Scenario =>
        /\ Near(commands[DEMAND_ROLL], 2040)
        /\ Near(commands[DEMAND_PITCH], -2040)
        /\ commands[DEMAND_YAW] = <<-3, 20>>
        /\ commands[DEMAND_THROTTLE] = <<1, 2>>
        /\ getAuxStateValue = 2

C13_Witness == Scenario /\ commands[DEMAND_ROLL] = <<51, 250>>

\* C14: for every raw input in [-1,+1] on roll, pitch and yaw, and any
\* configured pitchRollExpo and pitchRollRate, the roll, pitch and yaw commands
\* after computeExpo() lie in [-0.5, +0.5].
C14_CommandsWithinHalf ==
    lastOp = "computeExpo" =>
        \A ch \in {DEMAND_ROLL, DEMAND_PITCH, DEMAND_YAW} :
            ~RPos(RSub(RAbs(commands[ch]), <<1, 2>>))

\* C15: yaw is never passed through the expo/rate curve: after computeExpo()
\* the yaw command is -r/2 for the raw yaw r, whatever pitchRollExpo and
\* pitchRollRate are.
C15_YawHalvedNegated ==
    lastOp = "computeExpo" =>
        LET y == RNeg(RDiv(Fix(rawvals[DEMAND_YAW]), RInt(2)))
        IN  /\ commands[DEMAND_YAW] = y
            /\ \A c \in Configs :
                  ExpoCommands(commands, rawvals, c)[DEMAND_YAW] = y

C15_Witness ==
    /\ lastOp = "computeExpo"
    /\ config.pitchRollRate = 60
    /\ config.pitchRollExpo = 28
    /\ rawvals[DEMAND_YAW] = 12
    /\ commands[DEMAND_YAW] = <<-3, 20>>

Queries == {"computeExpo", "changed", "getAuxState", "throttleIsDown"}

\* C16: frame conditions. computeExpo(), changed(), getAuxState() and
\* throttleIsDown() leave rawvals, the stick code, the debounce counter, the
\* cycle index and the config unchanged, so a changed() right after a
\* changed() returns the same value; update() leaves commands and the config
\* unchanged; only init() changes the config.
C16_FrameConditions ==
    [][ /\ lastOp' \in Queries =>
              UNCHANGED <<rawvals, sticks, commandDelay, averageIndex, config>>
        /\ (lastOp = "changed" /\ lastOp' = "changed") => ret' = ret
        /\ lastOp' = "update" => UNCHANGED <<commands, config>>
        /\ config' # config => lastOp' = "init" ]_vars

C16_Witness ==
    /\ lastOp = "changed"
    /\ mode # "none"
    /\ commandDelay > 0
    /\ sticks # 0
    /\ calls = MaxCalls

\* C17: the commands computeExpo() writes depend on the current rawvals and
\* config only, whatever commands held before; a second computeExpo() with no
\* update() in between leaves the same commands as the first.
C17_NoRetainedHistory ==
    lastOp = "computeExpo" =>
        /\ \A c0 \in InitCommands : commands = ExpoCommands(c0, rawvals, config)
        /\ commands = ExpoCommands(commands, rawvals, config)

C17_Witness ==
    /\ lastOp = "computeExpo"
    /\ mode = "serial"
    /\ commands \notin InitCommands
    /\ commands[DEMAND_ROLL] = <<51, 250>>
    /\ commands[DEMAND_THROTTLE] = <<1, 2>>

----------------------------------------------------------------------------
(* SpecWrap: update() and init() around the end of the int32_t cycle index *)

\* the receiver after INT32_MAX - WrapLead filtered update() calls that each
\* averaged to a centred frame
InitWrap ==
    /\ config \in Configs
    /\ rawvals = Frame(0, 0, 0, 0, 0)
    /\ commands \in InitCommands
    /\ commandDelay = 250
    /\ sticks = StickCode(rawvals, config.margin)
    /\ averageIndex = INT32_MAX - WrapLead
    /\ lastOp = "update"
    /\ ret = 0
    /\ held = MaxHeld
    /\ fired = 1
    /\ hist = <<>>
    /\ mode = "filtered"
    /\ updates = MaxUpdates
    /\ calls = 0

CountedWrap == calls < MaxWrapCalls /\ calls' = calls + 1

NextWrap ==
    \/ CallInit /\ CountedWrap
    \/ CallUpdateSerial(FilterFrames, FALSE) /\ CountedWrap
    \/ CallUpdateFiltered(FilterFrames, FilterJunk, FALSE) /\ CountedWrap

SpecWrap == InitWrap /\ [][NextWrap]_vars

\* C18: after any number of filtered update() calls, also after the 32-bit
\* signed cycle index has wrapped around, the buffer slot update() writes,
\* averageIndex % 4, is one of 0, 1, 2, 3.
C18_SlotInRange ==
    (mode = "filtered" /\ lastOp = "update") => Slot(averageIndex) \in 0 .. 3

----------------------------------------------------------------------------
(* Claims about throttleIsDown() and init(), checked under Spec and
   SpecDebounce *)

\* bit 7 of the stick code: the throttle's bit of the "check for MIN" test
ThrottleMinBit == HighBit(PairAt(sticks, DEMAND_THROTTLE))

\* C19 as stated: after every update(), throttleIsDown() returns true exactly
\* when the throttle's "near minimum" bit is set in the stick code.
C19_DownIffMinBitSet ==
    (lastOp = "throttleIsDown" /\ mode # "none") =>
        (ret = 1 <=> ThrottleMinBit = 1)

\* C19 amended: after every update(), throttleIsDown() returns true exactly
\* when the throttle's bit of the minimum test is clear in the stick code and
\* raw throttle is not -1 + margin itself (the bit is set by raw > -1 + margin,
\* throttleIsDown() is raw < -1 + margin).
C19_DownIffMinBitClear ==
    (lastOp = "throttleIsDown" /\ mode # "none") =>
        (ret = 1 <=> (ThrottleMinBit = 0 /\
                      rawvals[DEMAND_THROTTLE] # -One + config.margin))

C19_Witness ==
    /\ lastOp = "throttleIsDown"
    /\ mode # "none"
    /\ ret = 1
    /\ ThrottleMinBit = 0
    /\ rawvals[DEMAND_THROTTLE] = -One

\* raw throttle at -1 + margin: bit clear, throttle not down
C19_BoundaryWitness ==
    /\ lastOp = "throttleIsDown"
    /\ mode # "none"
    /\ ret = 0
    /\ ThrottleMinBit = 0
    /\ rawvals[DEMAND_THROTTLE] = -One + config.margin

\* C20: init() sets the debounce counter, the stick code and the cycle index
\* to 0, so changed() is false right after init() and stays false until at
\* least 20 update() calls have been made since the latest init(), whatever
\* the inputs.
C20_InitResets ==
    /\ lastOp = "init" =>
          commandDelay = 0 /\ sticks = 0 /\ averageIndex = 0 /\ changedValue = 0
    /\ updates < 20 => changedValue = 0
    /\ (lastOp = "changed" /\ updates < 20) => ret = 0

\* changed() is true after the 21st update() since init()
C20_Witness ==
    /\ lastOp = "changed"
    /\ ret = 1
    /\ updates = 21
    /\ held = 21

====
